---- MODULE Spec2Model ----
(***************************************************************************)
(* Retrieval-augmented fact-check pipeline (backend/src).                  *)
(*                                                                         *)
(*   Spec       one request through LLMService.generate_fact_check_response*)
(*              (llm_service.py): no-context short circuit, the blocking   *)
(*              provider call, JSON parsing and schema validation, the two *)
(*              error paths.                                               *)
(*   SpecChunk  DocumentProcessor.chunk_text (document_processor.py), one  *)
(*              loop iteration per step.                                   *)
(*   SpecDoc    DocumentProcessor.process_document, one call per step.     *)
(*   SpecEmbed  DocumentProcessor.generate_embeddings, one batch per step, *)
(*              called directly or by the ingestion of a file.             *)
(*   SpecStore  FactCheckDatabase (database.py): files ingested into the   *)
(*              collection, deleted from it by file name, the collection   *)
(*              cleared, counted and queried, with backend failures.       *)
(*   SpecQuery  fact_check (api.py) without LLM: the query of a small      *)
(*              collection and the confidence of each result.              *)
(*   SpecDir    DocumentProcessor.process_directory, one file per step,    *)
(*              run again after a file has changed.                        *)
(*   SpecUpload upload_file (api.py) for two requests served by threads,   *)
(*              one step of a request at a time.                           *)
(*                                                                         *)
(* Python values are tagged records so that None, strings and objects can  *)
(* be compared: None / Str(s) for Optional[str], JNull / JStr / JNum /     *)
(* JArr / JObj for the value json.loads returns.  Texts are TLA+ strings;  *)
(* a confidence is kept in thousandths (the API rounds it to 3 decimals).  *)
(***************************************************************************)
EXTENDS Integers, Sequences, FiniteSets, TLC

VARIABLES
    pc,              \* position of the request: idle, prompting, parsing, done
    context_chunks,  \* the context_chunks argument of the request
    response,        \* what the provider returned: [text, usage], or NoResponse
    llm_calls,       \* chat.completions.create calls made during this request
    result,          \* the LLMResponseWrapper returned, or NoResult
    outcome,         \* terminal outcome of the request, "" before it ends
    ck_pc,           \* chunk_text: idle, loop, done
    text,            \* chunk_text: the text argument
    chunk_size,      \* chunk_text: the chunk_size argument
    overlap,         \* chunk_text: the overlap argument
    start,           \* chunk_text: the local start
    chunks,          \* chunk_text: the local chunks / the value returned
    iterations,      \* chunk_text: loop iterations made by this call
    windows,         \* chunk_text: the (start, end) of each iteration so far
    pd_in,           \* process_document: the arguments of the last call
    pd_out,          \* process_document: (chunks, metadata_list, ids) returned
    pd_calls,        \* process_document: calls made so far
    pd_prev,         \* process_document: [in, out] of the call before the last
    emb_pc,          \* generate_embeddings: idle, loop, done
    emb_caller,      \* generate_embeddings: who called, "direct" or "ingest"
    emb_doc,         \* ingestion: what process_document returned for the file
    emb_texts,       \* generate_embeddings: the texts argument
    emb_i,           \* generate_embeddings: the loop variable i
    embeddings,      \* generate_embeddings: the local embeddings
    emb_requests,    \* the batches sent to embeddings.create by this call
    emb_out,         \* generate_embeddings: Ok(vectors), Raise(e), or NoResult
    collection,      \* the ChromaDB collection: id -> [document, metadata, embedding]
    collection_live, \* self.collection refers to a collection that exists
    db_last,         \* the last operation on the collection and its outcome
    disk,            \* the files on disk: path -> content
    dir_pc,          \* process_directory: "idle", "loop" or "done"
    dir_files,       \* process_directory: files_to_process
    dir_k,           \* process_directory: how many of them the loop has taken
    stats,           \* process_directory: stats, None before the first call
    dir_log,         \* what happened to each file taken, in order
    req              \* the upload requests: id -> position, form data, answer

llm_vars == <<pc, context_chunks, response, llm_calls, result, outcome>>
chunk_vars ==
    <<ck_pc, text, chunk_size, overlap, start, chunks, iterations, windows>>
doc_vars == <<pd_in, pd_out, pd_calls, pd_prev>>
emb_vars ==
    <<emb_pc, emb_caller, emb_doc, emb_texts, emb_i, embeddings, emb_requests,
      emb_out>>
store_vars == <<collection, collection_live, db_last>>
dir_vars == <<disk, dir_pc, dir_files, dir_k, stats, dir_log>>
api_vars == <<req>>
vars ==
    <<llm_vars, chunk_vars, doc_vars, emb_vars, store_vars, dir_vars, api_vars>>

\* what the actions of one component leave alone
llm_frame == <<chunk_vars, doc_vars, emb_vars, store_vars, dir_vars, api_vars>>
chunk_frame == <<llm_vars, doc_vars, emb_vars, store_vars, dir_vars, api_vars>>
doc_frame == <<llm_vars, chunk_vars, emb_vars, store_vars, dir_vars, api_vars>>
emb_frame == <<llm_vars, chunk_vars, doc_vars, dir_vars, api_vars>>
store_frame == <<llm_vars, chunk_vars, doc_vars, emb_vars, dir_vars, api_vars>>
dir_frame == <<llm_vars, chunk_vars, doc_vars, emb_vars, api_vars>>
api_frame ==
    <<llm_vars, chunk_vars, doc_vars, emb_vars, dir_pc, dir_files, dir_k, stats,
      dir_log>>

(***************************************************************************)
(* Python and JSON values                                                  *)
(***************************************************************************)
None == [type |-> "None"]
Str(s) == [type |-> "str", v |-> s]

JNull == [type |-> "null"]
JStr(s) == [type |-> "string", s |-> s]
JNum(n) == [type |-> "number", n |-> n]
JArr(items) == [type |-> "array", items |-> items]
JObj(fields) == [type |-> "object", fields |-> fields]
\* a key the object does not hold (an object's fields map every key it may
\* hold; the keys it holds are those whose value is not Absent)
Absent == [type |-> "absent"]

HasKey(obj, key) == key \in DOMAIN obj.fields /\ obj.fields[key] # Absent

\* dict.get(key, default) on a decoded JSON object
DictGet(obj, key, default) ==
    IF HasKey(obj, key) THEN obj.fields[key] ELSE default

\* the outcome of a block of Python code: a value, or the exception it raised
Ok(v) == [exc |-> "none", value |-> v]
Raise(e) == [exc |-> e, value |-> None]

\* s[lo:hi] for a Python str (0-based, negative indices count from the end)
PySlice(s, lo, hi) ==
    LET n == Len(s)
        norm(i) == IF i < 0 THEN (IF i + n < 0 THEN 0 ELSE i + n)
                   ELSE (IF i > n THEN n ELSE i)
        a == norm(lo)
        b == norm(hi)
    IN IF a >= b THEN "" ELSE SubSeq(s, a + 1, b)

(***************************************************************************)
(* models.py                                                               *)
(***************************************************************************)
FactCheckClassification == {"SUPPORTED", "CONTRADICTED", "INSUFFICIENT", "MIXED"}

AnalysisMinLength == 10
ReasoningMinLength == 20

TokenUsage(p, c, t) ==
    [prompt_tokens |-> p, completion_tokens |-> c, total_tokens |-> t]

\* SourceReference(source_number=..., file_name=..., document_url=...):
\* pydantic validates source_number as int and file_name as str.
\* number and name are JSON values (or the Python defaults wrapped alike).
SourceReferenceValid(number, name) ==
    number.type = "number" /\ name.type = "string"

SourceReference(number, name, url) ==
    [source_number |-> number.n, file_name |-> name.s, document_url |-> url]

\* FactCheckResponse field validation: str with min_length
StrMinLength(v, n) == v.type = "string" /\ Len(v.s) >= n

\* faulty variant: any string is taken as a classification
ClassificationValid_AnyString(v) == v.type = "string"

\* FactCheckClassification(value): the enum lookup by value
ClassificationValid(v) == v.type = "string" /\ v.s \in FactCheckClassification

FactCheckResponse(classification, analysis, sources_used, reasoning) ==
    [type |-> "FactCheckResponse", classification |-> classification,
     analysis |-> analysis, sources_used |-> sources_used,
     reasoning |-> reasoning]

LLMResponseWrapper(status, fact_check, token_usage, error, fallback_response) ==
    [status |-> status, fact_check |-> fact_check, model_used |-> "gpt-3.5-turbo",
     token_usage |-> token_usage, error |-> error,
     fallback_response |-> fallback_response]

(***************************************************************************)
(* llm_service.py: parsing and validating the provider's text              *)
(***************************************************************************)
\* json.loads(generated_text): a text is either the serialisation of a JSON
\* value, [json |-> value], or not JSON at all, [garbage |-> the characters]
json_loads(generated_text) ==
    IF "json" \in DOMAIN generated_text
    THEN Ok(generated_text.json)
    ELSE Raise("JSONDecodeError")

\* truthiness of chunk.get('source_file') and chunk.get('document_url')
Truthy(v) == v.type = "str" /\ v.v # ""

\* lines 140-143: file name -> document URL, a later chunk overwriting an
\* earlier one of the same file
source_file_to_url(ctx) ==
    LET usable == {i \in 1..Len(ctx) :
                      ctx[i].source_file # "" /\ Truthy(ctx[i].document_url)}
        last(f) == CHOOSE i \in usable :
                      /\ ctx[i].source_file = f
                      /\ \A k \in usable : ctx[k].source_file = f => k <= i
    IN [f \in {ctx[i].source_file : i \in usable} |->
            ctx[last(f)].document_url.v]

\* faulty variant: a missing file name gets a URL made up from the name
UrlGet_Fabricated(map, name) ==
    IF name.type = "string"
    THEN (IF name.s \in DOMAIN map THEN Str(map[name.s])
          ELSE Str("/api/documents/" \o name.s))
    ELSE None

\* source_file_to_url.get(source_file), the key being a decoded JSON value
UrlGet(map, name) ==
    IF name.type = "string" /\ name.s \in DOMAIN map THEN Str(map[name.s]) ELSE None

\* what `for source_data in <value>` iterates over
Iterate(v) ==
    CASE v.type = "array" -> Ok(v.items)
      [] v.type = "string" -> Ok([i \in 1..Len(v.s) |-> JStr(SubSeq(v.s, i, i))])
      [] v.type = "object" ->
            Ok(SelectSeq(<<JStr("source_number"), JStr("file_name")>>,
                         LAMBDA k : HasKey(v, k.s)))
      [] OTHER -> Raise("TypeError")

\* lines 145-154: the loop building sources_used; the first failing entry
\* ends it
RECURSIVE BuildSources(_, _)
BuildSources(items, map) ==
    IF items = <<>> THEN Ok(<<>>)
    ELSE LET source_data == Head(items) IN
         IF source_data.type # "object" THEN Raise("AttributeError")
         ELSE LET source_file == DictGet(source_data, "file_name", JStr("unknown"))
                  number == DictGet(source_data, "source_number", JNum(1))
              IN IF ~SourceReferenceValid(number, source_file)
                 THEN Raise("ValidationError")
                 ELSE LET rest == BuildSources(Tail(items), map) IN
                      IF rest.exc # "none" THEN rest
                      ELSE Ok(<<SourceReference(number, source_file,
                                                UrlGet(map, source_file))>>
                              \o rest.value)

\* lines 136-162: the body of the inner try
ParseFactCheck(generated_text, ctx) ==
    LET loaded == json_loads(generated_text) IN
    IF loaded.exc # "none" THEN loaded
    ELSE LET json_response == loaded.value IN
    IF json_response.type # "object" THEN Raise("AttributeError")
    ELSE LET listed == Iterate(DictGet(json_response, "sources_used", JArr(<<>>))) IN
    IF listed.exc # "none" THEN listed
    ELSE LET sources_used == BuildSources(listed.value, source_file_to_url(ctx)) IN
    IF sources_used.exc # "none" THEN sources_used
    ELSE LET classification == DictGet(json_response, "classification", JStr("INSUFFICIENT"))
             analysis == DictGet(json_response, "analysis", JStr("Analysis not provided"))
             reasoning == DictGet(json_response, "reasoning", JStr("Reasoning not provided"))
         IN IF ~ClassificationValid(classification) THEN Raise("ValueError")
            ELSE IF ~StrMinLength(analysis, AnalysisMinLength)
                    \/ ~StrMinLength(reasoning, ReasoningMinLength)
                 THEN Raise("ValidationError")
                 ELSE Ok(FactCheckResponse(classification.s, analysis.s,
                                           sources_used.value, reasoning.s))

\* line 175: except (json.JSONDecodeError, ValueError); pydantic's
\* ValidationError is a ValueError
CaughtAsParseError(e) == e \in {"JSONDecodeError", "ValueError", "ValidationError"}

(***************************************************************************)
(* llm_service.py: the wrappers returned                                   *)
(***************************************************************************)
FallbackShown == 3
FallbackTextLen == 200

\* f"{confidence:.3f}" of a confidence given in thousandths
FormatConfidence(milli) ==
    LET frac == milli % 1000
    IN ToString(milli \div 1000) \o "."
         \o (IF frac < 10 THEN "00" ELSE IF frac < 100 THEN "0" ELSE "")
         \o ToString(frac)

\* line 221: text[:200] + "..." if len(text) > 200 else text
TruncatedText(t) ==
    IF Len(t) > FallbackTextLen THEN PySlice(t, 0, FallbackTextLen) \o "..." ELSE t

\* line 223: one entry of the fallback summary
FallbackEntry(i, chunk) ==
    "Source " \o ToString(i) \o " (Confidence: "
      \o FormatConfidence(chunk.confidence) \o ")\nFrom: " \o chunk.source_file
      \o "\n" \o TruncatedText(chunk.text) \o "\n\n"

\* faulty variant: every chunk is listed
TopChunks_All(ctx) == ctx

\* line 218: context_chunks[:3]
TopChunks(ctx) ==
    SubSeq(ctx, 1, IF Len(ctx) < FallbackShown THEN Len(ctx) ELSE FallbackShown)

RECURSIVE FallbackEntries(_, _)
FallbackEntries(shown, i) ==
    IF i > Len(shown) THEN ""
    ELSE FallbackEntry(i, shown[i]) \o FallbackEntries(shown, i + 1)

\* lines 203-225
create_fallback_response(ctx) ==
    IF ctx = <<>>
    THEN "No relevant context found to fact-check this query."
    ELSE "LLM service unavailable. Here are the most relevant sources found:\n\n"
           \o FallbackEntries(TopChunks(ctx), 1)

\* lines 102-114: the verdict returned without calling the provider
NoContextResult ==
    LLMResponseWrapper("success",
        FactCheckResponse("INSUFFICIENT",
            "No relevant documents found to fact-check this query.",
            <<>>,
            "No context documents were retrieved from the database that match this query."),
        TokenUsage(0, 0, 0), None, None)

\* lines 164-173
SuccessResult(fact_check, usage) ==
    LLMResponseWrapper("success", fact_check,
        TokenUsage(usage.prompt_tokens, usage.completion_tokens, usage.total_tokens),
        None, None)

\* faulty variant: the parse error reports no usage
ParseErrorResult_ZeroUsage(generated_text, usage, e) ==
    LLMResponseWrapper("error", None, TokenUsage(0, 0, 0),
        Str("JSON parsing failed: " \o e), generated_text)

\* lines 179-190: the inner except; the fallback is generated_text itself
ParseErrorResult(generated_text, usage, e) ==
    LLMResponseWrapper("error", None,
        TokenUsage(usage.prompt_tokens, usage.completion_tokens, usage.total_tokens),
        Str("JSON parsing failed: " \o e), generated_text)

\* faulty variant: the outer except returns no fallback text
ExceptionResult_NoFallback(ctx, e) ==
    LLMResponseWrapper("error", None, TokenUsage(0, 0, 0), Str(e), None)

\* lines 192-201: the outer except
ExceptionResult(ctx, e) ==
    LLMResponseWrapper("error", None, TokenUsage(0, 0, 0), Str(e),
        Str(create_fallback_response(ctx)))

\* lines 132-201: what the request returns once the provider has answered
ResultOfResponse(ctx, resp) ==
    LET parsed == ParseFactCheck(resp.text, ctx) IN
    IF parsed.exc = "none" THEN SuccessResult(parsed.value, resp.usage)
    ELSE IF CaughtAsParseError(parsed.exc)
         THEN ParseErrorResult(resp.text, resp.usage, parsed.exc)
         ELSE ExceptionResult(ctx, parsed.exc)

\* the return statement reached: line 164, line 179 or line 194
OutcomeOfResponse(ctx, resp) ==
    LET parsed == ParseFactCheck(resp.text, ctx) IN
    IF parsed.exc = "none" THEN "SUCCESS"
    ELSE IF CaughtAsParseError(parsed.exc) THEN "PARSE_FAILED"
         ELSE "PROVIDER_FAILED"

(***************************************************************************)
(* Inputs of a request                                                     *)
(***************************************************************************)
MaxChunks == 4

Filler50 == "The quick brown fox jumps over the lazy dog again."
Text200 == Filler50 \o Filler50 \o Filler50 \o Filler50
Text201 == Text200 \o "!"

\* the chunks retrieval can hand over: text, source_file and confidence as the
\* API fills them; document_url a URL, "" (no source URL) or missing
ChunkPool ==
    { [text |-> Text201, source_file |-> "a.txt",
       document_url |-> Str("https://gov.example/a-v1"), confidence |-> 950],
      [text |-> Text200, source_file |-> "a.txt",
       document_url |-> Str("https://gov.example/a-v2"), confidence |-> 950],
      [text |-> "Short text.", source_file |-> "b.txt",
       document_url |-> Str(""), confidence |-> 87],
      [text |-> "", source_file |-> "c.txt",
       document_url |-> None, confidence |-> 0] }

\* retrieval returns distinct stored chunks, nearest first (api.py lines
\* 199-214: confidence falls as distance grows)
Contexts ==
    UNION { {c \in [1..n -> ChunkPool] :
                \A i, k \in 1..n :
                    i < k => c[i] # c[k] /\ c[i].confidence >= c[k].confidence} :
            n \in 0..MaxChunks }

Entry(number, name) == JObj([source_number |-> number, file_name |-> name])

SourcesValues ==
    { Absent, JNull, JStr("a.txt"), Entry(JNum(1), JStr("a.txt")),
      JArr(<<>>),
      JArr(<<Entry(JNum(1), JStr("a.txt"))>>),
      JArr(<<Entry(JNum(1), JStr("a.txt")), Entry(JNum(7), JStr("z.txt"))>>),
      JArr(<<Entry(JNum(2), JStr("b.txt")), Entry(JNum(3), JStr("c.txt"))>>),
      JArr(<<Entry(JNum(1), JStr("a.txt")), Entry(Absent, Absent)>>),
      JArr(<<Entry(JStr("one"), JStr("a.txt"))>>),
      JArr(<<Entry(JNum(1), JNull)>>),
      JArr(<<Entry(JNum(1), JStr("a.txt")), JStr("b.txt")>>),
      JArr(<<JNull>>) }

ClassificationValues ==
    {Absent, JNull, JStr("SUPPORTED"), JStr("MIXED"), JStr("supported")}

AnalysisValues == {Absent, JStr("Too short"), JStr("Ten chars.")}

ReasoningValues == {Absent, JStr("Nineteen characters"), JStr("Twenty characters ok")}

\* the texts the provider can answer with
LLMTexts ==
    { [garbage |-> "I cannot help with that."], [garbage |-> ""],
      [json |-> JArr(<<>>)], [json |-> JStr("SUPPORTED")], [json |-> JNull] }
    \cup
    { [json |-> JObj([classification |-> c, analysis |-> a,
                      sources_used |-> s, reasoning |-> r])] :
        c \in ClassificationValues, a \in AnalysisValues,
        s \in SourcesValues, r \in ReasoningValues }

\* response.usage as the provider reports it
Usages == {TokenUsage(412, 96, 508), TokenUsage(55, 1, 56)}

\* the exceptions chat.completions.create raises
ProviderErrors == {"Connection error.", "Rate limit reached"}

NoResponse == None
NoResult == None

(***************************************************************************)
(* generate_fact_check_response, split at the blocking provider call       *)
(***************************************************************************)
\* faulty variant: the empty context is not short-circuited
Request_NoShortCircuit(ctx) ==
    /\ pc = "idle"
    /\ context_chunks' = ctx
    /\ response' = NoResponse
    /\ result' = NoResult
    /\ outcome' = ""
    /\ llm_calls' = llm_calls + 1
    /\ pc' = "prompting"
    /\ UNCHANGED llm_frame

\* lines 100-130: the entry, up to the provider call being issued
Request(ctx) ==
    /\ pc = "idle"
    /\ context_chunks' = ctx
    /\ response' = NoResponse
    /\ IF ctx = <<>>
       THEN /\ result' = NoContextResult
            /\ outcome' = "NO_CONTEXT"
            /\ llm_calls' = llm_calls
            /\ pc' = "done"
       ELSE /\ result' = NoResult
            /\ outcome' = ""
            /\ llm_calls' = llm_calls + 1
            /\ pc' = "prompting"
    /\ UNCHANGED llm_frame

\* lines 121-132: chat.completions.create returns
ProviderReturns(resp) ==
    /\ pc = "prompting"
    /\ response' = resp
    /\ pc' = "parsing"
    /\ UNCHANGED <<context_chunks, llm_calls, result, outcome>>
    /\ UNCHANGED llm_frame

\* faulty variant: a failed provider call is tried again
ProviderRaises_Retry(e) ==
    /\ pc = "prompting"
    /\ llm_calls < 3
    /\ llm_calls' = llm_calls + 1
    /\ UNCHANGED <<pc, context_chunks, response, result, outcome>>
    /\ UNCHANGED llm_frame

\* lines 121, 192-201: chat.completions.create raises
ProviderRaises(e) ==
    /\ pc = "prompting"
    /\ result' = ExceptionResult(context_chunks, e)
    /\ outcome' = "PROVIDER_FAILED"
    /\ pc' = "done"
    /\ UNCHANGED <<context_chunks, response, llm_calls>>
    /\ UNCHANGED llm_frame

\* lines 132-201: parse, validate, return
Parse ==
    /\ pc = "parsing"
    /\ result' = ResultOfResponse(context_chunks, response)
    /\ outcome' = OutcomeOfResponse(context_chunks, response)
    /\ pc' = "done"
    /\ UNCHANGED <<context_chunks, response, llm_calls>>
    /\ UNCHANGED llm_frame

\* the caller has the wrapper; the service is ready for the next request
Return ==
    /\ pc = "done"
    /\ pc' = "idle"
    /\ context_chunks' = <<>>
    /\ response' = NoResponse
    /\ llm_calls' = 0
    /\ result' = NoResult
    /\ outcome' = ""
    /\ UNCHANGED llm_frame

(***************************************************************************)
(* document_processor.py: chunk_text                                       *)
(***************************************************************************)
SentenceLookback == 100
DefaultChunkSize == 800
DefaultOverlap == 100

\* str.rfind(c): the 0-based index of the last c in s, or -1
RFind(s, c) ==
    LET at == {i \in 1..Len(s) : SubSeq(s, i, i) = c}
    IN IF at = {} THEN -1 ELSE (CHOOSE i \in at : \A k \in at : k <= i) - 1

Max3(a, b, c) ==
    IF a >= b /\ a >= c THEN a ELSE IF b >= c THEN b ELSE c

IsSpace(c) == c \in {" ", "\t", "\n", "\r"}

\* str.strip(): the index of the first and of the last non-space character
RECURSIVE LStripFrom(_, _)
LStripFrom(s, i) ==
    IF i > Len(s) \/ ~IsSpace(SubSeq(s, i, i)) THEN i ELSE LStripFrom(s, i + 1)

RECURSIVE RStripTo(_, _)
RStripTo(s, j) ==
    IF j < 1 \/ ~IsSpace(SubSeq(s, j, j)) THEN j ELSE RStripTo(s, j - 1)

\* str.strip()
Strip(s) ==
    LET i == LStripFrom(s, 1)
    IN IF i > Len(s) THEN "" ELSE SubSeq(s, i, RStripTo(s, Len(s)))

\* faulty variant: the window is stretched forward to the next sentence end
WindowEnd_SnapForward(t, st, size) ==
    LET end == st + size
        next_part == PySlice(t, end, end + SentenceLookback)
        sentence_end == Max3(RFind(next_part, "."), RFind(next_part, "!"),
                             RFind(next_part, "?"))
    IN IF end < Len(t) /\ sentence_end # -1
       THEN end + sentence_end + 1
       ELSE end

\* lines 148-161: the end of the window that starts at st
WindowEnd(t, st, size) ==
    LET end == st + size
        last_part == PySlice(t, end - SentenceLookback, end)
        sentence_end == Max3(RFind(last_part, "."), RFind(last_part, "!"),
                             RFind(last_part, "?"))
    IN IF end < Len(t) /\ sentence_end # -1
       THEN end - SentenceLookback + sentence_end + 1
       ELSE end

\* lines 163-165: the chunk of the window, appended unless empty
WithChunk(acc, t, st, end) ==
    LET chunk == Strip(PySlice(t, st, end))
    IN IF chunk # "" THEN Append(acc, chunk) ELSE acc

\* lines 141-142: the text that fits one chunk
SingleChunk(t) == <<t>>

MaxTextLen == 4
MaxChunkSize == 3
MaxIterations == 6

Alphabet == {"a", " ", "."}

RECURSIVE TextsOfLen(_)
TextsOfLen(n) ==
    IF n = 0 THEN {""} ELSE {t \o c : t \in TextsOfLen(n - 1), c \in Alphabet}

Texts == UNION {TextsOfLen(n) : n \in 0..MaxTextLen}

\* s repeated n times
RECURSIVE Rep(_, _)
Rep(s, n) ==
    IF n <= 0 THEN ""
    ELSE IF n = 1 THEN s
    ELSE LET h == Rep(s, n \div 2)
         IN IF n % 2 = 0 THEN h \o h ELSE h \o h \o s

\* a text of n characters, letters from index from on, with a "." at each
\* 0-based index of S
RECURSIVE WithSentenceEnds(_, _, _)
WithSentenceEnds(n, S, from) ==
    IF S = {} THEN Rep("a", n - from)
    ELSE LET p == CHOOSE x \in S : \A y \in S : x <= y
         IN Rep("a", p - from) \o "." \o WithSentenceEnds(n, S \ {p}, p + 1)

\* sentence ends inside and outside the look-back of the default windows
SentenceEndPositions == {650, 700, 799, 1301, 1400, 1499}

\* documents of 2000 characters, and one whose last window is a short tail
LongTexts ==
    {WithSentenceEnds(2000, S, 0) : S \in SUBSET SentenceEndPositions}
        \cup {Rep("a", 1450), Rep("ab. ", 500)}

\* (chunk_size, overlap) with 0 <= overlap < chunk_size, and the defaults
Configs ==
    {cfg \in (1..MaxChunkSize) \X (0..MaxChunkSize) : cfg[2] < cfg[1]}
        \cup {<<DefaultChunkSize, DefaultOverlap>>}

\* lines 141-145: the call
ChunkCall(t, size, ov) ==
    /\ ck_pc = "idle"
    /\ text' = t
    /\ chunk_size' = size
    /\ overlap' = ov
    /\ start' = 0
    /\ iterations' = 0
    /\ windows' = <<>>
    /\ IF Len(t) <= size
       THEN chunks' = SingleChunk(t) /\ ck_pc' = "done"
       ELSE chunks' = <<>> /\ ck_pc' = "loop"
    /\ UNCHANGED chunk_frame

\* lines 147-167: one iteration of the while loop
ChunkIterate ==
    /\ ck_pc = "loop"
    /\ start < Len(text)
    /\ iterations < MaxIterations
    /\ LET end == WindowEnd(text, start, chunk_size)
       IN /\ chunks' = WithChunk(chunks, text, start, end)
          /\ start' = end - overlap
          /\ windows' = Append(windows, <<start, end>>)
    /\ iterations' = iterations + 1
    /\ UNCHANGED <<ck_pc, text, chunk_size, overlap>>
    /\ UNCHANGED chunk_frame

\* lines 147, 169: the loop condition fails, chunks is returned
ChunkExit ==
    /\ ck_pc = "loop"
    /\ ~(start < Len(text))
    /\ ck_pc' = "done"
    /\ UNCHANGED <<text, chunk_size, overlap, start, chunks, iterations,
                   windows>>
    /\ UNCHANGED chunk_frame

\* the caller has the chunks
ChunkReturn ==
    /\ ck_pc = "done"
    /\ ck_pc' = "idle"
    /\ text' = ""
    /\ chunk_size' = DefaultChunkSize
    /\ overlap' = DefaultOverlap
    /\ start' = 0
    /\ chunks' = <<>>
    /\ iterations' = 0
    /\ windows' = <<>>
    /\ UNCHANGED chunk_frame

(***************************************************************************)
(* DocumentProcessor.process_document (document_processor.py)              *)
(***************************************************************************)
\* chunk_text as one call: the loop of lines 147-167 from start st
RECURSIVE ChunkLoop(_, _, _, _, _)
ChunkLoop(t, size, ov, st, acc) ==
    IF ~(st < Len(t)) THEN acc
    ELSE LET end == WindowEnd(t, st, size)
         IN ChunkLoop(t, size, ov, end - ov, WithChunk(acc, t, st, end))

chunk_text(t, size, ov) ==
    IF Len(t) <= size THEN SingleChunk(t) ELSE ChunkLoop(t, size, ov, 0, <<>>)

Letters ==
    <<"a", "b", "c", "d", "e", "f", "g", "h", "i", "j", "k", "l", "m",
      "n", "o", "p", "q", "r", "s", "t", "u", "v", "w", "x", "y", "z">>
Capitals ==
    <<"A", "B", "C", "D", "E", "F", "G", "H", "I", "J", "K", "L", "M",
      "N", "O", "P", "Q", "R", "S", "T", "U", "V", "W", "X", "Y", "Z">>
Digits == <<"0", "1", "2", "3", "4", "5", "6", "7", "8", "9">>

Range(f) == {f[i] : i \in DOMAIN f}

\* the characters the class \w matches
WordChars ==
    Range(Letters) \cup Range(Capitals) \cup Range(Digits) \cup {"_"}

\* line 125: the characters the second substitution keeps
KeptChars ==
    WordChars \cup {" ", "\t", "\n", "\r"}
        \cup {".", ",", "!", "?", ";", ":", "(", ")", "-"}

\* line 121: every run of whitespace in s[lo..hi] becomes one space
RECURSIVE CollapseSpaces(_, _, _)
CollapseSpaces(s, lo, hi) ==
    IF lo > hi THEN ""
    ELSE IF \A i \in lo..hi : ~IsSpace(SubSeq(s, i, i)) THEN SubSeq(s, lo, hi)
    ELSE IF lo = hi
    THEN IF lo > 1 /\ IsSpace(SubSeq(s, lo - 1, lo - 1)) THEN "" ELSE " "
    ELSE LET mid == (lo + hi) \div 2
         IN CollapseSpaces(s, lo, mid) \o CollapseSpaces(s, mid + 1, hi)

\* line 125: the characters of s[lo..hi] that are kept
RECURSIVE RemoveSpecial(_, _, _)
RemoveSpecial(s, lo, hi) ==
    IF lo > hi THEN ""
    ELSE IF \A i \in lo..hi : SubSeq(s, i, i) \in KeptChars THEN SubSeq(s, lo, hi)
    ELSE IF lo = hi THEN ""
    ELSE LET mid == (lo + hi) \div 2
         IN RemoveSpecial(s, lo, mid) \o RemoveSpecial(s, mid + 1, hi)

\* lines 110-127
clean_text(raw) ==
    LET collapsed == CollapseSpaces(raw, 1, Len(raw))
        stripped == Strip(collapsed)
    IN RemoveSpecial(stripped, 1, Len(stripped))

\* pathlib: Path.name, Path.suffix, Path.stem
PathName(path) == SubSeq(path, RFind(path, "/") + 2, Len(path))

PathSuffix(path) ==
    LET name == PathName(path)
        dot == RFind(name, ".")
    IN IF 0 < dot /\ dot < Len(name) - 1 THEN SubSeq(name, dot + 1, Len(name))
       ELSE ""

PathStem(path) ==
    LET name == PathName(path)
    IN SubSeq(name, 1, Len(name) - Len(PathSuffix(path)))

LowerChar(c) ==
    IF c \in Range(Capitals)
    THEN Letters[CHOOSE i \in DOMAIN Capitals : Capitals[i] = c]
    ELSE c

\* str.lower()
RECURSIVE Lower(_)
Lower(s) ==
    IF s = "" THEN "" ELSE LowerChar(SubSeq(s, 1, 1)) \o Lower(SubSeq(s, 2, Len(s)))

\* lines 50-78: the text of a file; content is what is on disk
extract_text_from_file(path, content) ==
    IF Lower(PathSuffix(path)) \in {".txt", ".pdf", ".docx", ".csv"}
    THEN content
    ELSE ""

\* line 232: hashlib.md5(str(file_path).encode()).hexdigest()[:8]
FileHash(path) ==
    CASE path = "documents/doc.txt" -> "61a2b08d"
      [] path = "documents/other.txt" -> "f47eed6a"
      [] path = "archive/doc.txt" -> "5c30b49a"
      [] path = "documents/mydoc.txt" -> "32c5d658"
      [] path = "documents/DOC.TXT" -> "7a6cbc7a"
      [] path = "documents/notes.md" -> "7327b07a"
      [] path = "documents/empty.txt" -> "4853f806"
      [] path = "documents/new.txt" -> "c656aa70"
      [] path = "documents/new_file.txt" -> "132eb6f3"
      [] path = "documents/blank.txt" -> "472cbf11"

\* the format 04d
Pad4(i) == Rep("0", 4 - Len(ToString(i))) \o ToString(i)

\* line 237
ChunkId(path, i) == PathStem(path) \o "_" \o FileHash(path) \o "_" \o Pad4(i)

\* source_url or ""
OrEmpty(u) == IF u = None \/ u = Str("") THEN "" ELSE u.v

\* faulty variant: chunk_index counts from 1
ChunkMetadata_OneBased(path, u, at, cks, i) ==
    [source_file |-> PathName(path),
     source_path |-> path,
     source_url |-> OrEmpty(u),
     chunk_index |-> i + 1,
     total_chunks |-> Len(cks),
     file_type |-> PathSuffix(path),
     processed_at |-> at,
     chunk_length |-> Len(cks[i + 1]),
     file_hash |-> FileHash(path)]

\* lines 238-248: the metadata of chunk i (0-based) of cks
ChunkMetadata(path, u, at, cks, i) ==
    [source_file |-> PathName(path),
     source_path |-> path,
     source_url |-> OrEmpty(u),
     chunk_index |-> i,
     total_chunks |-> Len(cks),
     file_type |-> PathSuffix(path),
     processed_at |-> at,
     chunk_length |-> Len(cks[i + 1]),
     file_hash |-> FileHash(path)]

NoDocument == [chunks |-> <<>>, metadata_list |-> <<>>, ids |-> <<>>]

\* faulty variant: the ids carry the time of the call
process_document_TimedIds(path, content, u, at) ==
    LET raw_text == extract_text_from_file(path, content)
        cks == chunk_text(clean_text(raw_text), DefaultChunkSize, DefaultOverlap)
    IN IF raw_text = "" THEN NoDocument
       ELSE [chunks |-> cks,
             metadata_list |->
                 [k \in 1..Len(cks) |-> ChunkMetadata(path, u, at, cks, k - 1)],
             ids |-> [k \in 1..Len(cks) |-> ChunkId(path, k - 1) \o "_" \o at]]

\* lines 204-253; at is what datetime.now() returns during the call
process_document(path, content, u, at) ==
    LET raw_text == extract_text_from_file(path, content)
        cks == chunk_text(clean_text(raw_text), DefaultChunkSize, DefaultOverlap)
    IN IF raw_text = "" THEN NoDocument
       ELSE [chunks |-> cks,
             metadata_list |->
                 [k \in 1..Len(cks) |-> ChunkMetadata(path, u, at, cks, k - 1)],
             ids |-> [k \in 1..Len(cks) |-> ChunkId(path, k - 1)]]

(***************************************************************************)
(* FactCheckDatabase (database.py) over a ChromaDB collection              *)
(***************************************************************************)
EmptyCollection == [id \in {} |-> None]

\* the record stored for chunk k of an add call
Stored(documents, metadatas, embs, k) ==
    [document |-> documents[k], metadata |-> metadatas[k], embedding |-> embs[k]]

\* Collection.add: the ids not yet in the collection are inserted, the
\* records of the others are left as they are
CollectionAdd(coll, documents, metadatas, ids, embs) ==
    [id \in DOMAIN coll \cup Range(ids) |->
        IF id \in DOMAIN coll THEN coll[id]
        ELSE Stored(documents, metadatas, embs,
                    CHOOSE k \in DOMAIN ids : ids[k] = id)]

\* no exception of the ChromaDB backend
NoFault == ""

\* lines 45-73: add_document_chunks, as [coll, out]; Collection.add rejects
\* arguments of unequal lengths and ignores an id that is already stored;
\* f is the exception of the backend (NoFault when it works), printed and
\* raised again by lines 71-73
add_document_chunks(coll, documents, metadatas, ids, embs, f) ==
    IF f # NoFault THEN [coll |-> coll, out |-> Raise(f)]
    ELSE IF ~(Len(documents) = Len(ids) /\ Len(metadatas) = Len(ids)
            /\ Len(embs) = Len(ids))
    THEN [coll |-> coll, out |-> Raise("ValueError")]
    ELSE [coll |-> CollectionAdd(coll, documents, metadatas, ids, embs),
          out |-> Ok(None)]

\* faulty variant: every chunk whose source_file contains filename is removed
CollectionDelete_Contains(coll, filename) ==
    [id \in {x \in DOMAIN coll :
                LET name == coll[x].metadata.source_file
                IN ~\E i \in 1..Len(name) :
                      /\ i + Len(filename) - 1 <= Len(name)
                      /\ SubSeq(name, i, i + Len(filename) - 1) = filename} |->
        coll[id]]

\* Collection.delete(where={'source_file': {'$eq': filename}})
CollectionDelete(coll, filename) ==
    [id \in {x \in DOMAIN coll : coll[x].metadata.source_file # filename} |->
        coll[id]]

\* lines 110-132: delete_document_by_filename, as [coll, out]; line 128
\* returns 1, lines 130-132 raise the exception of the backend again
delete_document_by_filename(coll, filename, f) ==
    IF f # NoFault THEN [coll |-> coll, out |-> Raise(f)]
    ELSE [coll |-> CollectionDelete(coll, filename), out |-> Ok(1)]

\* the step of clear_collection at which the backend raises
ClearFaults == {"delete_collection", "create_collection"}

\* lines 134-149: clear_collection, as [coll, live, out]; the collection is
\* deleted and created again under the same name, an exception of either
\* step is printed by lines 148-149 and the method returns None
clear_collection(coll, live, f) ==
    IF ~live \/ f = "delete_collection"
    THEN [coll |-> coll, live |-> live, out |-> Ok(None)]
    ELSE IF f = "create_collection"
    THEN [coll |-> EmptyCollection, live |-> FALSE, out |-> Ok(None)]
    ELSE [coll |-> EmptyCollection, live |-> TRUE, out |-> Ok(None)]

\* lines 97-108: get_collection_stats (without db_path)
get_collection_stats(coll, f) ==
    IF f # NoFault
    THEN [total_chunks |-> 0, collection_name |-> "unknown"]
    ELSE [total_chunks |-> Cardinality(DOMAIN coll),
          collection_name |-> "fact_check_documents"]

\* what lines 94-95 return when the query raises
EmptyResults ==
    [documents |-> << <<>> >>, metadatas |-> << <<>> >>, distances |-> << <<>> >>]

\* Collection.query for one query vector: ranking is the sequence of
\* <<id, distance>> the nearest-neighbour search of the library finds
CollectionQuery(coll, ranking) ==
    [documents |-> <<[k \in DOMAIN ranking |-> coll[ranking[k][1]].document]>>,
     metadatas |-> <<[k \in DOMAIN ranking |-> coll[ranking[k][1]].metadata]>>,
     distances |-> <<[k \in DOMAIN ranking |-> ranking[k][2]]>>]

\* lines 75-95: query_similar_with_embeddings
query_similar_with_embeddings(coll, ranking, f) ==
    IF f # NoFault THEN EmptyResults ELSE CollectionQuery(coll, ranking)

\* api.py lines 482-501: the clear endpoint after clear_collection
clear_database(out) ==
    IF out.exc = "none" THEN [code |-> 200, status |-> "success"]
    ELSE [code |-> 500, status |-> "error"]

\* round(x, 3) of a float x given in ten-thousandths, in thousandths; the
\* binary float next to a decimal ending in 5 lies on either side of it, so
\* a tie goes up or down
Round3(x, up) ==
    LET q == x \div 10
        r == x % 10
    IN IF r < 5 THEN q
       ELSE IF r > 5 THEN q + 1
       ELSE IF up THEN q + 1 ELSE q

\* faulty variant: the confidence is not floored at 0
Confidence_Unclamped(distance, up) ==
    IF 10000 - distance >= 0 THEN Round3(10000 - distance, up)
    ELSE 0 - Round3(distance - 10000, up)

\* api.py lines 204 and 212: max(0, 1 - distance) rounded to 3 decimals;
\* distance in ten-thousandths, the confidence in thousandths
Confidence(distance, up) ==
    LET confidence == IF 10000 - distance >= 0 THEN 10000 - distance ELSE 0
    IN Round3(confidence, up)

\* models.py lines 42-50: the bounds ContextChunk validates
ValidContextChunk(c) ==
    c.confidence >= 0 /\ c.confidence <= 1000 /\ c.distance >= 0

\* api.py lines 108-120: generate_document_url, `source_url or ""` of the
\* string the metadata holds
generate_document_url(source_url) ==
    IF Len(source_url) = 0 THEN "" ELSE source_url

\* api.py lines 198-214: the context of a fact-check built from the results
\* of the query; ties[k] says how the two round calls of entry k settle a tie
FactCheckContext(results, ties) ==
    [k \in 1..Len(results.documents[1]) |->
        [text |-> results.documents[1][k],
         source_file |-> results.metadatas[1][k].source_file,
         source |-> results.metadatas[1][k].source_url,
         document_url |->
             generate_document_url(results.metadatas[1][k].source_url),
         chunk_index |-> results.metadatas[1][k].chunk_index,
         confidence |-> Confidence(results.distances[1][k], ties[k][1]),
         distance |-> Round3(results.distances[1][k], ties[k][2])]]

\* api.py lines 217-258: the answer of fact_check without LLM; a chunk that
\* fails validation ends in the handler of lines 258-260
APIFactCheckResponse(ctx) ==
    IF \E k \in DOMAIN ctx : ~ValidContextChunk(ctx[k])
    THEN [code |-> 500, status |-> "error", context |-> <<>>,
          total_context_chunks |-> 0]
    ELSE [code |-> 200, status |-> "success", context |-> ctx,
          total_context_chunks |-> Len(ctx)]

NoOperation == [op |-> "none"]

(***************************************************************************)
(* DocumentProcessor.generate_embeddings (document_processor.py) and the   *)
(* ingestion that calls it                                                 *)
(***************************************************************************)
BatchSize == 100

\* the vector the provider computes for a text
ProviderVector(t) == [vector_of |-> t]

Min(a, b) == IF a <= b THEN a ELSE b

\* faulty variant: a batch takes one text too many
Batch_OneMore(texts, i) ==
    SubSeq(texts, i + 1, Min(i + BatchSize + 1, Len(texts)))

\* line 187: texts[i:i + batch_size]
Batch(texts, i) == SubSeq(texts, i + 1, Min(i + BatchSize, Len(texts)))

\* line 194: [data.embedding for data in response.data]
BatchEmbeddings(batch) == [k \in 1..Len(batch) |-> ProviderVector(batch[k])]

\* lines 181-186: the call; caller is "direct", or "ingest" with the document
EmbedCall(texts, caller, doc) ==
    /\ emb_pc = "idle"
    /\ emb_pc' = "loop"
    /\ emb_caller' = caller
    /\ emb_doc' = doc
    /\ emb_texts' = texts
    /\ emb_i' = 0
    /\ embeddings' = <<>>
    /\ emb_requests' = <<>>
    /\ emb_out' = NoResult
    /\ UNCHANGED store_vars
    /\ UNCHANGED emb_frame

\* lines 186-195: one batch, the provider answers
EmbedBatchReturns ==
    /\ emb_pc = "loop"
    /\ emb_i < Len(emb_texts)
    /\ LET batch == Batch(emb_texts, emb_i)
       IN /\ emb_requests' = Append(emb_requests, batch)
          /\ embeddings' = embeddings \o BatchEmbeddings(batch)
    /\ emb_i' = emb_i + BatchSize
    /\ UNCHANGED <<emb_pc, emb_caller, emb_doc, emb_texts, emb_out>>
    /\ UNCHANGED store_vars
    /\ UNCHANGED emb_frame

\* faulty variant: a failed batch is skipped and the loop goes on
EmbedBatchRaises_Skipped(e) ==
    /\ emb_pc = "loop"
    /\ emb_i < Len(emb_texts)
    /\ emb_requests' = Append(emb_requests, Batch(emb_texts, emb_i))
    /\ emb_i' = emb_i + BatchSize
    /\ UNCHANGED <<emb_pc, emb_out, emb_caller, emb_doc, emb_texts, embeddings>>
    /\ UNCHANGED store_vars
    /\ UNCHANGED emb_frame

\* lines 189-192, 200-202: one batch, the provider call raises
EmbedBatchRaises(e) ==
    /\ emb_pc = "loop"
    /\ emb_i < Len(emb_texts)
    /\ emb_requests' = Append(emb_requests, Batch(emb_texts, emb_i))
    /\ emb_out' = Raise(e)
    /\ emb_pc' = "done"
    /\ UNCHANGED <<emb_caller, emb_doc, emb_texts, emb_i, embeddings>>
    /\ UNCHANGED store_vars
    /\ UNCHANGED emb_frame

\* lines 186, 197-198: the range is exhausted, embeddings is returned
EmbedReturn ==
    /\ emb_pc = "loop"
    /\ ~(emb_i < Len(emb_texts))
    /\ emb_out' = Ok(embeddings)
    /\ emb_pc' = "done"
    /\ UNCHANGED <<emb_caller, emb_doc, emb_texts, emb_i, embeddings,
                   emb_requests>>
    /\ UNCHANGED store_vars
    /\ UNCHANGED emb_frame

\* the locals of the call are gone
EmbedIdle ==
    /\ emb_pc' = "idle"
    /\ emb_caller' = "direct"
    /\ emb_doc' = NoDocument
    /\ emb_texts' = <<>>
    /\ emb_i' = 0
    /\ embeddings' = <<>>
    /\ emb_requests' = <<>>
    /\ emb_out' = NoResult

\* a direct caller has the vectors or the exception
DirectDone ==
    /\ emb_pc = "done"
    /\ emb_caller = "direct"
    /\ EmbedIdle
    /\ UNCHANGED store_vars
    /\ UNCHANGED emb_frame

\* process_directory lines 298-313, upload_file lines 414-440: the vectors
\* are added with the chunks, an exception ends the file
IngestDone ==
    /\ emb_pc = "done"
    /\ emb_caller = "ingest"
    /\ IF emb_out.exc = "none"
       THEN LET added == add_document_chunks(collection, emb_doc.chunks,
                             emb_doc.metadata_list, emb_doc.ids, emb_out.value,
                             NoFault)
            IN /\ collection' = added.coll
               /\ collection_live' = collection_live
               /\ db_last' = [op |-> "add", doc |-> emb_doc,
                              embeddings |-> emb_out.value,
                              before |-> collection, out |-> added.out]
       ELSE UNCHANGED store_vars
    /\ EmbedIdle
    /\ UNCHANGED emb_frame

\* input lengths around the multiples of the batch size
BatchCases == {0, 1, 99, 100, 101, 200, 201}

DirectTexts(n) == [k \in 1..n |-> "text " \o ToString(k)]

EmbedErrors == {"APIConnectionError", "RateLimitError"}

\* the files ingested: (file_path, what is on disk, source_url, now)
IngestCalls ==
    {<<"documents/doc.txt", "Hello, world.", Str(""), "2025-08-30T10:00:00">>,
     <<"documents/doc.txt", "Good bye.", Str(""), "2025-08-30T10:00:01">>,
     <<"documents/other.txt", "Hello, world.", Str("https://example.org/doc"),
       "2025-08-30T10:00:00">>,
     <<"documents/other.txt", "@", Str(""), "2025-08-30T10:00:00">>,
     <<"documents/notes.md", "Hello, world.", Str(""), "2025-08-30T10:00:00">>}

\* process_directory lines 298-301, upload_file lines 407-414: the file is
\* processed and, if it has chunks, their embeddings are requested
IngestCall(c) ==
    LET doc == process_document(c[1], c[2], c[3], c[4])
    IN /\ doc.chunks # <<>>
       /\ EmbedCall(doc.chunks, "ingest", doc)

\* generate_embeddings as one call: the loop of lines 186-195 from index i
RECURSIVE EmbedLoop(_, _, _)
EmbedLoop(texts, i, acc) ==
    IF ~(i < Len(texts)) THEN acc
    ELSE EmbedLoop(texts, i + BatchSize,
                   acc \o BatchEmbeddings(Batch(texts, i)))

\* lines 171-202; e is the exception of the provider, "" when it answers
generate_embeddings(texts, e) ==
    IF e # "" /\ texts # <<>> THEN Raise(e) ELSE Ok(EmbedLoop(texts, 0, <<>>))

\* the exception a call of the ChromaDB backend raises
BackendFaults == {"InternalError"}

\* a call through a handle whose collection was deleted raises
BackendFault(f) == IF collection_live THEN f ELSE "NotFoundError"

\* the files ingested into the collection: (file_path, what is on disk,
\* source_url, now); doc.txt has 5 chunks at first and one later on,
\* other.txt has 2
StoreCalls ==
    {<<"documents/doc.txt", Rep("Five chunks. ", 230), Str(""),
       "2025-08-30T10:00:00">>,
     <<"documents/doc.txt", "Good bye.", Str(""), "2025-08-30T10:00:01">>,
     <<"documents/other.txt", Rep("a", 1000), Str("https://example.org/doc"),
       "2025-08-30T10:00:00">>,
     <<"documents/mydoc.txt", "Hello, world.", Str(""), "2025-08-30T10:00:00">>,
     <<"documents/DOC.TXT", "Hello, world.", Str(""), "2025-08-30T10:00:00">>,
     <<"archive/doc.txt", "Hello, world.", Str(""), "2025-08-30T10:00:00">>,
     <<"documents/notes.md", "Hello, world.", Str(""), "2025-08-30T10:00:00">>,
     <<"documents/empty.txt", "", Str(""), "2025-08-30T10:00:00">>}

\* what process_document returns for each of them
ProcessedStoreCalls ==
    [c \in StoreCalls |-> process_document(c[1], c[2], c[3], c[4])]

Filenames == {"doc.txt", "other.txt", "mydoc.txt", "DOC.TXT", "doc"}

\* distances of the nearest chunk, in ten-thousandths
StoreDistances == {500, 12500}

\* distances a query returns, in ten-thousandths: 0, 0.05, values a round
\* call has to settle, values around and beyond 1
QueryDistances == {0, 5, 500, 4995, 5005, 10005, 25000}

\* api.py line 180: n_results = min(data.get('n_results', 5), 10); data is
\* <<>> for a request without n_results and <<n>> for one with it
NResults(data) == Min(IF data = <<>> THEN 5 ELSE data[1], 10)

\* the n_results of a request
NResultsData == {<<>>, <<1>>, <<12>>}

\* the files in the collection that is queried, one chunk each
QueryCalls ==
    {c \in StoreCalls : c[1] \in {"documents/mydoc.txt", "documents/DOC.TXT"}}

\* process_directory lines 297-313, upload_file lines 407-440: one file is
\* processed, embedded and added; e is the exception of the embedding
\* provider ("" when it answers), f the exception of the ChromaDB backend
Ingest(c, e, f) ==
    LET doc == ProcessedStoreCalls[c]
        embs == generate_embeddings(doc.chunks, e)
        added == add_document_chunks(collection, doc.chunks, doc.metadata_list,
                                     doc.ids, embs.value, BackendFault(f))
    IN /\ emb_pc = "idle"
       /\ IF doc.chunks = <<>> THEN UNCHANGED store_vars
          ELSE IF embs.exc # "none"
          THEN /\ collection' = collection
               /\ collection_live' = collection_live
               /\ db_last' = [op |-> "embed", out |-> embs]
          ELSE /\ collection' = added.coll
               /\ collection_live' = collection_live
               /\ db_last' = [op |-> "add", doc |-> doc, embeddings |-> embs.value,
                              fault |-> BackendFault(f),
                              before |-> collection, out |-> added.out]
       /\ UNCHANGED store_frame

\* lines 110-132: delete_document_by_filename
DeleteByFilename(filename, f) ==
    LET deleted == delete_document_by_filename(collection, filename,
                                               BackendFault(f))
    IN /\ emb_pc = "idle"
       /\ collection' = deleted.coll
       /\ collection_live' = collection_live
       /\ db_last' = [op |-> "delete", filename |-> filename,
                      fault |-> BackendFault(f),
                      before |-> collection, out |-> deleted.out]
       /\ UNCHANGED store_frame

\* database.py lines 134-149 under api.py lines 482-501: the clear endpoint
ClearCollection(f) ==
    LET cleared == clear_collection(collection, collection_live, f)
    IN /\ emb_pc = "idle"
       /\ collection' = cleared.coll
       /\ collection_live' = cleared.live
       /\ db_last' = [op |-> "clear",
                      fault |-> IF collection_live THEN f ELSE "delete_collection",
                      before |-> collection, out |-> cleared.out,
                      response |-> clear_database(cleared.out)]
       /\ UNCHANGED store_frame

\* database.py lines 97-108: get_collection_stats
Stats(f) ==
    /\ emb_pc = "idle"
    /\ db_last' = [op |-> "stats", fault |-> BackendFault(f),
                   before |-> collection,
                   out |-> get_collection_stats(collection, BackendFault(f))]
    /\ UNCHANGED <<collection, collection_live>>
    /\ UNCHANGED store_frame

\* the rankings a query for n results can find: min(n, count) stored chunks,
\* nearest first, with distances from D
Rankings(coll, n, D) ==
    LET m == Min(n, Cardinality(DOMAIN coll))
    IN {r \in [1..m -> (DOMAIN coll) \X D] :
           \A i, k \in 1..m :
               i < k => r[i][1] # r[k][1] /\ r[i][2] <= r[k][2]}

\* how the round calls for the entries of a ranking can settle: <<confidence
\* up, distance up>> for each entry, FALSE where the value is no tie
Ties(ranking) ==
    {t \in [DOMAIN ranking -> BOOLEAN \X BOOLEAN] :
        \A k \in DOMAIN ranking :
            ranking[k][2] % 10 # 5 => t[k] = <<FALSE, FALSE>>}

\* api.py lines 162-260 with use_llm false: the query text is embedded, the
\* collection is queried and the context is built from the results
FactCheck(n, ranking, ties, f) ==
    LET results == query_similar_with_embeddings(collection, ranking,
                                                 BackendFault(f))
    IN /\ emb_pc = "idle"
       /\ db_last' = [op |-> "query", n_results |-> n,
                      fault |-> BackendFault(f),
                      before |-> collection, out |-> results,
                      response |->
                          APIFactCheckResponse(FactCheckContext(results, ties))]
       /\ UNCHANGED <<collection, collection_live>>
       /\ UNCHANGED store_frame

(***************************************************************************)
(* DocumentProcessor.process_directory (document_processor.py)             *)
(***************************************************************************)
\* line 48: supported_formats
SupportedFormats == {".txt", ".pdf", ".docx", ".csv"}

\* pathlib: str(Path.parent)
PathParent(path) == SubSeq(path, 1, RFind(path, "/"))

\* the directories that exist
Directories(dk) == {PathParent(p) : p \in DOMAIN dk}

\* lines 273-275: input_dir.glob("*" + ext) for each supported format
Glob(dk, input_dir) ==
    {p \in DOMAIN dk :
        PathParent(p) = input_dir /\ PathSuffix(p) \in SupportedFormats}

\* glob yields the files in any order
Orders(S) ==
    {q \in [1..Cardinality(S) -> S] :
        \A i, k \in 1..Cardinality(S) : i # k => q[i] # q[k]}

\* the files on disk at the start
InitialDisk ==
    [p \in {"documents/doc.txt", "documents/mydoc.txt", "documents/empty.txt",
            "documents/notes.md", "archive/notes.md"} |->
        CASE p = "documents/doc.txt" -> Rep("Five chunks. ", 230)
          [] p = "documents/empty.txt" -> ""
          [] OTHER -> "Hello, world."]

\* line 298: process_document(file_path) for the content the file has now
ProcessedFile(dk, file_path) ==
    ProcessedStoreCalls[CHOOSE c \in StoreCalls :
                            /\ c[1] = file_path
                            /\ c[2] = dk[file_path]
                            /\ c[3] = Str("")]

\* lines 284-290: stats at the start of the loop
InitialStats(n) ==
    [total_files |-> n, processed_files |-> 0, total_chunks |-> 0,
     failed_files |-> <<>>]

\* faulty variant: one chunk is counted for each processed file
FileProcessed_OneChunk(st, n) ==
    [st EXCEPT !.total_chunks = @ + 1, !.processed_files = @ + 1]

\* lines 305-306: the file was added
FileProcessed(st, n) ==
    [st EXCEPT !.total_chunks = @ + n, !.processed_files = @ + 1]

\* faulty variant: a file that failed is not recorded
FileFailed_Dropped(st, file_path) == st

\* lines 309 and 313: the file has no chunks or raised
FileFailed(st, file_path) ==
    [st EXCEPT !.failed_files = Append(@, file_path)]

\* lines 266-290: process_directory up to the loop
ProcessDirectoryCall(input_dir, order) ==
    /\ dir_pc # "loop"
    /\ emb_pc = "idle"
    /\ dir_k' = 0
    /\ dir_log' = <<>>
    /\ IF input_dir \notin Directories(disk)
       THEN /\ stats' = [error |-> "Directory not found"]
            /\ dir_files' = <<>>
            /\ dir_pc' = "done"
       ELSE IF Glob(disk, input_dir) = {}
       THEN /\ stats' = [error |-> "No supported files found"]
            /\ dir_files' = <<>>
            /\ dir_pc' = "done"
       ELSE /\ order \in Orders(Glob(disk, input_dir))
            /\ stats' = InitialStats(Len(order))
            /\ dir_files' = order
            /\ dir_pc' = "loop"
    /\ UNCHANGED <<disk, store_vars>>
    /\ UNCHANGED dir_frame

\* lines 295-313: one file of the loop; e is the exception of the embedding
\* provider ("" when it answers), f the exception of the ChromaDB backend
ProcessFile(e, f) ==
    /\ dir_pc = "loop"
    /\ dir_k < Len(dir_files)
    /\ LET file_path == dir_files[dir_k + 1]
           doc == ProcessedFile(disk, file_path)
           embs == generate_embeddings(doc.chunks, e)
           added == add_document_chunks(collection, doc.chunks,
                        doc.metadata_list, doc.ids, embs.value, BackendFault(f))
           entry == [path |-> file_path, chunks |-> Len(doc.chunks)]
       IN IF doc.chunks = <<>>
          THEN /\ stats' = FileFailed(stats, file_path)
               /\ dir_log' = Append(dir_log, entry @@ [outcome |-> "no chunks"])
               /\ UNCHANGED store_vars
          ELSE IF embs.exc # "none"
          THEN /\ stats' = FileFailed(stats, file_path)
               /\ dir_log' = Append(dir_log, entry @@ [outcome |-> "raised"])
               /\ db_last' = [op |-> "embed", out |-> embs]
               /\ UNCHANGED <<collection, collection_live>>
          ELSE /\ stats' = IF added.out.exc = "none"
                           THEN FileProcessed(stats, Len(doc.chunks))
                           ELSE FileFailed(stats, file_path)
               /\ dir_log' = Append(dir_log, entry @@
                       [outcome |-> IF added.out.exc = "none" THEN "added"
                                    ELSE "raised"])
               /\ collection' = added.coll
               /\ collection_live' = collection_live
               /\ db_last' = [op |-> "add", doc |-> doc,
                              embeddings |-> embs.value,
                              fault |-> BackendFault(f),
                              before |-> collection, out |-> added.out]
    /\ dir_k' = dir_k + 1
    /\ UNCHANGED <<disk, dir_pc, dir_files>>
    /\ UNCHANGED dir_frame

\* lines 295 and 315-328: the loop is over, stats is returned
ProcessDirectoryReturn ==
    /\ dir_pc = "loop"
    /\ ~(dir_k < Len(dir_files))
    /\ dir_pc' = "done"
    /\ UNCHANGED <<disk, dir_files, dir_k, stats, dir_log, store_vars>>
    /\ UNCHANGED dir_frame

\* a file is written while no directory is being processed
WriteFile(path, content) ==
    /\ dir_pc # "loop"
    /\ path \in DOMAIN disk
    /\ disk[path] # content
    /\ disk' = [disk EXCEPT ![path] = content]
    /\ UNCHANGED <<dir_pc, dir_files, dir_k, stats, dir_log, store_vars>>
    /\ UNCHANGED dir_frame

\* the directories process_directory is called for
InputDirs == {"documents", "archive", "missing"}

\* the versions of documents/doc.txt: five chunks and one chunk
DocVersions == {Rep("Five chunks. ", 230), "Good bye."}

(***************************************************************************)
(* upload_file (api.py), one step per request at a time                    *)
(***************************************************************************)
\* line 30: the folder the uploads are saved in
UploadFolder == "documents"

\* line 31
AllowedExtensions == {"txt", "pdf", "docx", "csv"}

\* lines 91-94: allowed_file
allowed_file(filename) ==
    LET dot == RFind(filename, ".")
    IN /\ dot >= 0
       /\ Lower(SubSeq(filename, dot + 2, Len(filename))) \in AllowedExtensions

\* werkzeug secure_filename for names of letters, digits, dots and spaces:
\* each space becomes an underscore
RECURSIVE secure_filename(_)
secure_filename(filename) ==
    IF filename = "" THEN ""
    ELSE (IF SubSeq(filename, 1, 1) = " " THEN "_" ELSE SubSeq(filename, 1, 1))
            \o secure_filename(SubSeq(filename, 2, Len(filename)))

\* lines 386-389: file_path
UploadPath(filename) == UploadFolder \o "/" \o secure_filename(filename)

\* the requests served at the same time
Requests == {1, 2}

NoRequest == [pc |-> "none"]

\* the answer of upload_file
Answer(code, message) == [code |-> code, message |-> message]

\* datetime.now() while request r is processed
RequestTime(r) ==
    IF r = 1 THEN "2025-08-30T10:00:00" ELSE "2025-08-30T10:00:01"

\* a request arrives: u is the file name, the file content and the form
\* field source_url
UploadArrive(r, u) ==
    /\ req[r].pc = "none"
    /\ req' = [req EXCEPT ![r] =
                  [pc |-> "check", filename |-> u.filename,
                   content |-> u.content, source_url |-> u.source_url,
                   passed |-> FALSE, added |-> FALSE]]
    /\ UNCHANGED <<disk, store_vars>>
    /\ UNCHANGED api_frame

\* request r is answered
UploadAnswered(r, code, message) ==
    [req EXCEPT ![r] = [@ EXCEPT !.pc = "done"] @@
                           [response |-> Answer(code, message)]]

\* lines 368-393: the form is validated and the folder is looked up
UploadCheck(r) ==
    /\ req[r].pc = "check"
    /\ req' =
          IF req[r].filename = ""
          THEN UploadAnswered(r, 400, "No file selected")
          ELSE IF Strip(req[r].source_url) = ""
          THEN UploadAnswered(r, 400, "Source URL is required")
          ELSE IF ~allowed_file(req[r].filename)
          THEN UploadAnswered(r, 400, "File type not allowed")
          ELSE IF UploadPath(req[r].filename) \in DOMAIN disk
          THEN UploadAnswered(r, 409, "File already exists")
          ELSE [req EXCEPT ![r].pc = "save", ![r].passed = TRUE]
    /\ UNCHANGED <<disk, store_vars>>
    /\ UNCHANGED api_frame

\* line 395: file.save writes the file, over one that is there
UploadSave(r) ==
    /\ req[r].pc = "save"
    /\ disk' = [p \in DOMAIN disk \cup {UploadPath(req[r].filename)} |->
                  IF p = UploadPath(req[r].filename) THEN req[r].content
                  ELSE disk[p]]
    /\ req' = [req EXCEPT ![r].pc = "process"]
    /\ UNCHANGED store_vars
    /\ UNCHANGED api_frame

\* lines 398-414 and 430-440: the file is read, chunked and embedded; key
\* says whether OPENAI_API_KEY is set, e is the exception of the embedding
\* provider ("" when it answers)
UploadProcess(r, key, e) ==
    /\ req[r].pc = "process"
    /\ LET file_path == UploadPath(req[r].filename)
           doc == process_document(file_path, disk[file_path],
                                   Str(Strip(req[r].source_url)), RequestTime(r))
           embs == generate_embeddings(doc.chunks, e)
       IN req' =
             IF ~key THEN UploadAnswered(r, 500, "OpenAI API key not configured")
             ELSE IF doc.chunks = <<>>
             THEN UploadAnswered(r, 400, "No content extracted from file")
             ELSE IF embs.exc # "none"
             THEN UploadAnswered(r, 500, "File uploaded but processing failed")
             ELSE [req EXCEPT ![r] = [@ EXCEPT !.pc = "add"] @@
                                         [doc |-> doc, embeddings |-> embs.value]]
    /\ UNCHANGED <<disk, store_vars>>
    /\ UNCHANGED api_frame

\* lines 415-440: the chunks are added and the request is answered; f is
\* the exception of the ChromaDB backend
UploadAdd(r, f) ==
    /\ req[r].pc = "add"
    /\ LET added == add_document_chunks(collection, req[r].doc.chunks,
                        req[r].doc.metadata_list, req[r].doc.ids,
                        req[r].embeddings, BackendFault(f))
       IN /\ collection' = added.coll
          /\ collection_live' = collection_live
          /\ db_last' = [op |-> "add", doc |-> req[r].doc,
                         embeddings |-> req[r].embeddings,
                         fault |-> BackendFault(f),
                         before |-> collection, out |-> added.out]
          /\ req' =
                IF added.out.exc # "none"
                THEN UploadAnswered(r, 500, "File uploaded but processing failed")
                ELSE [UploadAnswered(r, 200, "File uploaded and processed successfully")
                         EXCEPT ![r].added = TRUE]
    /\ UNCHANGED disk
    /\ UNCHANGED api_frame

\* the uploads sent: file name, content and source_url
Uploads ==
    {[filename |-> "new.txt", content |-> "Hello, world.",
      source_url |-> "https://example.org/doc"],
     [filename |-> "new.txt", content |-> "Good bye.",
      source_url |-> " https://example.org/doc "],
     [filename |-> "new file.txt", content |-> "Hello, world.",
      source_url |-> "https://example.org/doc"],
     [filename |-> "blank.txt", content |-> "",
      source_url |-> "https://example.org/doc"],
     [filename |-> "new.txt", content |-> "Hello, world.", source_url |-> " "],
     [filename |-> "notes.md", content |-> "Hello, world.",
      source_url |-> "https://example.org/doc"],
     [filename |-> "", content |-> "", source_url |-> "https://example.org/doc"]}

MaxCalls == 2

\* documents of 2000 characters with sentence ends at various places
LongContents ==
    {WithSentenceEnds(2000, S, 0) : S \in {{}, {700, 1301}, {650, 1499}}}
        \cup {Rep("ab. ", 499) \o "abcd"}

DocPaths == {"documents/doc.txt", "archive/doc.txt"}

SourceUrls == {Str(""), Str("https://example.org/doc")}

Times == {"2025-08-30T10:00:00", "2025-08-30T10:00:01"}

\* the calls made: (file_path, what is on disk, source_url, datetime.now())
DocCalls ==
    (DocPaths \X {"Hello, world.", "@"} \X SourceUrls \X Times)
        \cup ({"documents/doc.txt"} \X (LongContents \cup {""}) \X {Str("")}
                 \X {"2025-08-30T10:00:00"})
        \cup {<<"documents/notes.md", "Hello, world.", None,
                "2025-08-30T10:00:00">>,
              <<"documents/doc.txt", "Hello, world.", None,
                "2025-08-30T10:00:00">>}

NoCall == [path |-> "", content |-> "", source_url |-> None, at |-> ""]

\* lines 204-253: one call of process_document
ProcessDocument(path, content, u, at) ==
    /\ pd_calls < MaxCalls
    /\ pd_in' = [path |-> path, content |-> content, source_url |-> u, at |-> at]
    /\ pd_out' = process_document(path, content, u, at)
    /\ pd_calls' = pd_calls + 1
    /\ pd_prev' = [in |-> pd_in, out |-> pd_out]
    /\ UNCHANGED doc_frame

(***************************************************************************)
(* Specifications                                                          *)
(***************************************************************************)
Init ==
    /\ pc = "idle"
    /\ context_chunks = <<>>
    /\ response = NoResponse
    /\ llm_calls = 0
    /\ result = NoResult
    /\ outcome = ""
    /\ ck_pc = "idle"
    /\ text = ""
    /\ chunk_size = DefaultChunkSize
    /\ overlap = DefaultOverlap
    /\ start = 0
    /\ chunks = <<>>
    /\ iterations = 0
    /\ windows = <<>>
    /\ pd_in = NoCall
    /\ pd_out = NoDocument
    /\ pd_calls = 0
    /\ pd_prev = [in |-> NoCall, out |-> NoDocument]
    /\ emb_pc = "idle"
    /\ emb_caller = "direct"
    /\ emb_doc = NoDocument
    /\ emb_texts = <<>>
    /\ emb_i = 0
    /\ embeddings = <<>>
    /\ emb_requests = <<>>
    /\ emb_out = NoResult
    /\ collection = EmptyCollection
    /\ collection_live = TRUE
    /\ db_last = NoOperation
    /\ disk = InitialDisk
    /\ dir_pc = "idle"
    /\ dir_files = <<>>
    /\ dir_k = 0
    /\ stats = None
    /\ dir_log = <<>>
    /\ req = [r \in Requests |-> NoRequest]

Next ==
    \/ \E ctx \in Contexts : Request(ctx)
    \/ \E t \in LLMTexts, u \in Usages : ProviderReturns([text |-> t, usage |-> u])
    \/ \E e \in ProviderErrors : ProviderRaises(e)
    \/ Parse
    \/ Return

Spec == Init /\ [][Next]_vars

NextChunk ==
    \/ \E t \in Texts, cfg \in Configs : ChunkCall(t, cfg[1], cfg[2])
    \/ \E t \in LongTexts : ChunkCall(t, DefaultChunkSize, DefaultOverlap)
    \/ ChunkIterate
    \/ ChunkExit
    \/ ChunkReturn

SpecChunk == Init /\ [][NextChunk]_vars

NextDoc ==
    \E c \in DocCalls : ProcessDocument(c[1], c[2], c[3], c[4])

SpecDoc == Init /\ [][NextDoc]_vars

NextEmbed ==
    \/ \E n \in BatchCases : EmbedCall(DirectTexts(n), "direct", NoDocument)
    \/ \E c \in IngestCalls : IngestCall(c)
    \/ EmbedBatchReturns
    \/ \E e \in EmbedErrors : EmbedBatchRaises(e)
    \/ EmbedReturn
    \/ DirectDone
    \/ IngestDone

SpecEmbed == Init /\ [][NextEmbed]_vars

NextStore ==
    \/ \E c \in StoreCalls, e \in EmbedErrors \cup {""},
          f \in BackendFaults \cup {NoFault} : Ingest(c, e, f)
    \/ \E filename \in Filenames, f \in BackendFaults \cup {NoFault} :
          DeleteByFilename(filename, f)
    \/ \E f \in ClearFaults \cup {NoFault} : ClearCollection(f)
    \/ \E f \in BackendFaults \cup {NoFault} : Stats(f)
    \/ \E ranking \in Rankings(collection, 1, StoreDistances) :
          \E ties \in Ties(ranking) : FactCheck(1, ranking, ties, NoFault)
    \/ \E f \in BackendFaults : FactCheck(1, <<>>, <<>>, f)

SpecStore == Init /\ [][NextStore]_vars

NextQuery ==
    \/ \E c \in QueryCalls : Ingest(c, "", NoFault)
    \/ \E data \in NResultsData :
          \E ranking \in Rankings(collection, NResults(data), QueryDistances) :
              \E ties \in Ties(ranking) :
                  FactCheck(NResults(data), ranking, ties, NoFault)
    \/ \E data \in NResultsData, f \in BackendFaults :
          FactCheck(NResults(data), <<>>, <<>>, f)

SpecQuery == Init /\ [][NextQuery]_vars

NextDir ==
    \/ \E input_dir \in InputDirs :
          \E order \in Orders(Glob(disk, input_dir)) :
              ProcessDirectoryCall(input_dir, order)
    \/ \E e \in EmbedErrors \cup {""}, f \in BackendFaults \cup {NoFault} :
          ProcessFile(e, f)
    \/ ProcessDirectoryReturn
    \/ \E content \in DocVersions : WriteFile("documents/doc.txt", content)

SpecDir == Init /\ [][NextDir]_vars

NextUpload ==
    \/ \E r \in Requests, u \in Uploads : UploadArrive(r, u)
    \/ \E r \in Requests : UploadCheck(r)
    \/ \E r \in Requests : UploadSave(r)
    \/ \E r \in Requests, key \in BOOLEAN, e \in EmbedErrors \cup {""} :
          UploadProcess(r, key, e)
    \/ \E r \in Requests, f \in BackendFaults \cup {NoFault} : UploadAdd(r, f)

SpecUpload == Init /\ [][NextUpload]_vars

(***************************************************************************)
(* Properties of generate_fact_check_response (under Spec)                 *)
(***************************************************************************)
Done == pc = "done"
Answered == response # NoResponse
ProviderFailed == Done /\ llm_calls > 0 /\ ~Answered
IsJson(t) == "json" \in DOMAIN t
IsSuccess == Done /\ result # NoResult /\ result.status = "success"
ZeroUsage == TokenUsage(0, 0, 0)

\* C1: a request with zero context chunks returns a success verdict with
\* classification INSUFFICIENT, empty sources_used and zero token usage, and
\* the provider is not called during it.
C1_NoContextShortCircuit ==
    (Done /\ context_chunks = <<>>) =>
        /\ result # NoResult
        /\ result.status = "success"
        /\ result.fact_check # None
        /\ result.fact_check.classification = "INSUFFICIENT"
        /\ result.fact_check.sources_used = <<>>
        /\ result.token_usage = ZeroUsage
        /\ llm_calls = 0
        /\ ~Answered

C1_Witness == Done /\ context_chunks = <<>> /\ outcome = "NO_CONTEXT"

\* C2: a provider text that is not valid JSON yields status error, no
\* fact_check, the raw text as fallback_response and the usage the provider
\* reported.
C2_InvalidJsonFallback ==
    (Done /\ Answered /\ ~IsJson(response.text)) =>
        /\ result # NoResult
        /\ result.status = "error"
        /\ result.fact_check = None
        /\ result.fallback_response = response.text
        /\ result.token_usage = response.usage

C2_Witness ==
    /\ Done /\ Answered /\ ~IsJson(response.text)
    /\ outcome = "PARSE_FAILED"
    /\ response.usage # ZeroUsage

\* the schema violations C3 lists, for a decoded JSON value j
C3_EntryViolation(e) ==
    \/ e.type # "object"
    \/ HasKey(e, "source_number") /\ e.fields.source_number.type # "number"

C3_FieldMissing(j) ==
    \E k \in {"classification", "analysis", "reasoning"} : ~HasKey(j, k)

C3_SchemaViolation(j) ==
    \/ j.type # "object"
    \/ /\ j.type = "object"
       /\ \/ C3_FieldMissing(j)
          \/ /\ HasKey(j, "sources_used") /\ j.fields.sources_used.type = "array"
             /\ \E i \in 1..Len(j.fields.sources_used.items) :
                    C3_EntryViolation(j.fields.sources_used.items[i])
          \/ HasKey(j, "analysis") /\ ~StrMinLength(j.fields.analysis, 10)
          \/ HasKey(j, "reasoning") /\ ~StrMinLength(j.fields.reasoning, 20)

\* C3: a provider text that is valid JSON but violates the schema (top level
\* not an object, a sources_used entry not an object or with a non-integer
\* source_number, classification / analysis / reasoning missing, analysis
\* under 10 characters, reasoning under 20) ends in PARSE_FAILED: status
\* error, no fact_check, the raw text as fallback_response, the reported usage.
C3_SchemaFailureIsParseFailed ==
    (Done /\ Answered /\ IsJson(response.text)
          /\ C3_SchemaViolation(response.text.json)) =>
        /\ outcome = "PARSE_FAILED"
        /\ result.status = "error"
        /\ result.fact_check = None
        /\ result.fallback_response = response.text
        /\ result.token_usage = response.usage

\* the classification the model returned, when its text is a JSON object
\* holding one
C4_Returned ==
    Answered /\ IsJson(response.text) /\ response.text.json.type = "object"
             /\ HasKey(response.text.json, "classification")

C4_ReturnedValue == response.text.json.fields.classification

\* C4: a returned classification that is not one of SUPPORTED, CONTRADICTED,
\* INSUFFICIENT, MIXED ends the request with status error and no fact_check;
\* a success verdict carries exactly the classification the model returned.
C4_UnknownClassificationRejected ==
    (Done /\ C4_Returned) =>
        /\ (~(C4_ReturnedValue.type = "string"
               /\ C4_ReturnedValue.s \in {"SUPPORTED", "CONTRADICTED",
                                           "INSUFFICIENT", "MIXED"}))
              => (result.status = "error" /\ result.fact_check = None)
        /\ result.status = "success"
              => /\ C4_ReturnedValue.type = "string"
                 /\ result.fact_check # None
                 /\ result.fact_check.classification = C4_ReturnedValue.s

C4_Witness ==
    /\ Done /\ C4_Returned
    /\ C4_ReturnedValue = JStr("supported")
    /\ outcome = "PARSE_FAILED"

\* what C5 expects of the fallback text, written out
C5_Confidence(milli) ==
    CASE milli = 950 -> "0.950"
      [] milli = 87 -> "0.087"
      [] milli = 0 -> "0.000"
      [] OTHER -> "?"

C5_Entry(i) ==
    IF i > Len(context_chunks) THEN ""
    ELSE LET chunk == context_chunks[i] IN
         "Source " \o ToString(i) \o " (Confidence: "
           \o C5_Confidence(chunk.confidence) \o ")\nFrom: " \o chunk.source_file
           \o "\n"
           \o (IF Len(chunk.text) > 200
               THEN SubSeq(chunk.text, 1, 200) \o "..." ELSE chunk.text)
           \o "\n\n"

\* C5: when the provider call fails with a non-empty context the request
\* returns (it does not raise) status error, no fact_check, usage 0/0/0 and a
\* fallback text made of the first three chunks only: file name, text cut to
\* 200 characters, confidence.
C5_ProviderFailureFallback ==
    (ProviderFailed /\ context_chunks # <<>>) =>
        /\ result # NoResult
        /\ result.status = "error"
        /\ result.fact_check = None
        /\ result.token_usage = ZeroUsage
        /\ result.fallback_response =
              Str("LLM service unavailable. Here are the most relevant sources found:\n\n"
                    \o C5_Entry(1) \o C5_Entry(2) \o C5_Entry(3))

C5_Witness ==
    /\ ProviderFailed /\ Len(context_chunks) = 4
    /\ \E i \in 1..3 : Len(context_chunks[i].text) > 200

\* the sources_used array the model returned, entry by entry
C6_Given == DictGet(response.text.json, "sources_used", JArr(<<>>))

C6_FileKnown(name) ==
    \E k \in 1..Len(context_chunks) : context_chunks[k].source_file = name

\* C6: in a success verdict an entry's document_url is unset or is the
\* document_url of a context chunk of that call whose source_file is the
\* entry's file_name; an entry whose file_name matches no chunk keeps the
\* file_name and source_number the model gave and has document_url unset.
C6_UrlNeverFabricated ==
    (IsSuccess /\ Answered) =>
        LET used == result.fact_check.sources_used IN
        \A i \in 1..Len(used) :
            /\ \/ used[i].document_url = None
               \/ \E k \in 1..Len(context_chunks) :
                     /\ context_chunks[k].source_file = used[i].file_name
                     /\ context_chunks[k].document_url = used[i].document_url
            /\ ~C6_FileKnown(used[i].file_name) =>
                  /\ used[i].document_url = None
                  /\ C6_Given.type = "array"
                  /\ Len(C6_Given.items) = Len(used)
                  /\ HasKey(C6_Given.items[i], "file_name") =>
                        C6_Given.items[i].fields.file_name = JStr(used[i].file_name)
                  /\ HasKey(C6_Given.items[i], "source_number") =>
                        C6_Given.items[i].fields.source_number = JNum(used[i].source_number)

C6_Witness ==
    /\ IsSuccess /\ Answered
    /\ \E i \in 1..Len(result.fact_check.sources_used) :
          LET e == result.fact_check.sources_used[i] IN
          /\ ~C6_FileKnown(e.file_name)
          /\ e.source_number = 7
          /\ e.document_url = None

\* C7 as stated: in a success verdict every sources_used entry names the
\* source_file of a context chunk passed to the call.
C7_SourcesOnlyFromContext ==
    (IsSuccess /\ Answered) =>
        \A i \in 1..Len(result.fact_check.sources_used) :
            C6_FileKnown(result.fact_check.sources_used[i].file_name)

\* C7 amended: in a success verdict every sources_used entry whose
\* document_url is set names the source_file of a context chunk passed to the
\* call (an entry naming another file is kept, with document_url unset).
C7_LinkedSourcesFromContext ==
    (IsSuccess /\ Answered) =>
        \A i \in 1..Len(result.fact_check.sources_used) :
            result.fact_check.sources_used[i].document_url # None =>
                C6_FileKnown(result.fact_check.sources_used[i].file_name)

C7_Witness ==
    /\ IsSuccess /\ Answered
    /\ \E i, k \in 1..Len(result.fact_check.sources_used) :
          /\ result.fact_check.sources_used[i].document_url # None
          /\ ~C6_FileKnown(result.fact_check.sources_used[k].file_name)

\* C8: a request calls the provider at most once (once when the context is
\* not empty, never when it is), the call is issued only on entry, the
\* request ends in one of NO_CONTEXT, SUCCESS, PARSE_FAILED, PROVIDER_FAILED,
\* and once it has ended nothing of it runs again: no second provider call.
C8_Step ==
    /\ llm_calls' <= 1
    /\ llm_calls' > llm_calls => (pc = "idle" /\ pc' = "prompting")
    /\ pc' = "done" =>
          /\ llm_calls' = (IF context_chunks' = <<>> THEN 0 ELSE 1)
          /\ outcome' \in {"NO_CONTEXT", "SUCCESS", "PARSE_FAILED", "PROVIDER_FAILED"}
          /\ outcome' = "NO_CONTEXT" <=> context_chunks' = <<>>
          /\ outcome' = "SUCCESS" => result'.status = "success"
          /\ outcome' \in {"PARSE_FAILED", "PROVIDER_FAILED"} => result'.status = "error"
    /\ pc' # "done" => outcome' = ""
    /\ pc = "done" => (pc' = "idle" /\ llm_calls' = 0)

C8_OneShot == [][C8_Step]_vars

C8_Witness == Done /\ outcome = "PROVIDER_FAILED" /\ llm_calls = 1 /\ ~Answered

\* C9: a returned wrapper is either a success (status success, fact_check
\* present, no error, no fallback_response) or an error descriptor (status
\* error, no fact_check, error and fallback_response present).
C9_SuccessOrErrorDescriptor ==
    result # NoResult =>
        \/ /\ result.status = "success"
           /\ result.fact_check # None
           /\ result.error = None
           /\ result.fallback_response = None
        \/ /\ result.status = "error"
           /\ result.fact_check = None
           /\ result.error # None
           /\ result.fallback_response # None

C9_Witness ==
    /\ Done /\ Answered /\ IsJson(response.text)
    /\ result.status = "error"
    /\ outcome = "PROVIDER_FAILED"

(***************************************************************************)
(* Properties of chunk_text (under SpecChunk)                              *)
(***************************************************************************)
\* C10: for a text no longer than chunk_size, chunk_text returns exactly one
\* chunk, the text with leading and trailing whitespace trimmed.
C10_ShortTextOneTrimmedChunk ==
    (ck_pc = "done" /\ Len(text) <= chunk_size) => chunks = <<Strip(text)>>

\* C11: every string chunk_text returns is non-empty, whatever the text.
C11_EveryChunkNonEmpty ==
    ck_pc = "done" => \A i \in 1..Len(chunks) : chunks[i] # ""

\* C12: the window start strictly increases at every iteration of the loop,
\* so chunk_text terminates for every configuration with
\* 0 <= overlap < chunk_size.
C12_Step == windows' # windows => start' > start

C12_StartStrictlyIncreases == [][C12_Step]_vars

\* C13: for a text longer than chunk_size, no chunk is longer than
\* chunk_size, snapped to a sentence end or not.
C13_NoChunkLongerThanMax ==
    Len(text) > chunk_size =>
        \A i \in 1..Len(chunks) : Len(chunks[i]) <= chunk_size

Snapped(w) == w[2] < w[1] + chunk_size

C13_Witness ==
    /\ ck_pc = "done"
    /\ chunk_size = DefaultChunkSize
    /\ Len(text) > chunk_size
    /\ \E i \in 1..Len(windows) : Snapped(windows[i])
    /\ \E i \in 1..Len(chunks) : Len(chunks[i]) = chunk_size
    /\ \E i \in 1..Len(chunks) : Len(chunks[i]) < chunk_size

\* C14: of two consecutive windows the later starts exactly overlap
\* characters before the end of the earlier, these overlap characters lie in
\* both windows, and every character from the start of the first window to
\* the end of the text lies in some window.
C14_SharedBy(a, b) ==
    /\ b[1] = a[2] - overlap
    /\ 0 <= b[1]
    /\ a[1] <= b[1]
    /\ (a[2] <= b[2] \/ Len(text) <= b[2])

C14_Covered(p) ==
    \E i \in 1..Len(windows) : windows[i][1] <= p /\ p < windows[i][2]

C14_ConsecutiveWindowsOverlap ==
    Len(text) > chunk_size =>
        /\ \A i \in 1..(Len(windows) - 1) :
               C14_SharedBy(windows[i], windows[i + 1])
        /\ ck_pc = "done" => \A p \in 0..(Len(text) - 1) : C14_Covered(p)

(***************************************************************************)
(* Properties of process_document (under SpecDoc)                          *)
(***************************************************************************)
Processed == pd_calls > 0 /\ pd_out # NoDocument

\* the call was given a document of 2000 characters, all of them kept
Doc2000 ==
    /\ Processed
    /\ Len(pd_in.content) = 2000
    /\ Len(clean_text(pd_in.content)) = 2000

HasSentenceEnd(s) == RFind(s, ".") # -1 \/ RFind(s, "!") # -1 \/ RFind(s, "?") # -1

\* total_chunks is n on every chunk and chunk_index runs 0, 1, ..., n - 1
Numbered(n) ==
    /\ Len(pd_out.chunks) = n
    /\ Len(pd_out.metadata_list) = n
    /\ \A k \in 1..n :
           /\ pd_out.metadata_list[k].total_chunks = n
           /\ pd_out.metadata_list[k].chunk_index = k - 1

SamePath == pd_calls >= 2 /\ pd_prev.in.path = pd_in.path

SameFile ==
    /\ SamePath
    /\ pd_prev.in.content = pd_in.content
    /\ pd_prev.in.source_url = pd_in.source_url

C18_IdsDeterministic ==
    /\ SameFile => pd_prev.out.ids = pd_out.ids
    /\ SamePath =>
           \A k \in 1..Len(pd_out.ids) :
               k <= Len(pd_prev.out.ids) => pd_prev.out.ids[k] = pd_out.ids[k]
    /\ \A k \in 1..Len(pd_out.ids) :
           pd_out.ids[k] =
               PathStem(pd_in.path) \o "_" \o pd_out.metadata_list[k].file_hash
                   \o "_" \o Pad4(pd_out.metadata_list[k].chunk_index)

C18_Witness ==
    /\ SameFile
    /\ pd_prev.in.at # pd_in.at
    /\ Len(pd_out.ids) > 0
    /\ pd_prev.out.ids = pd_out.ids

\* C25: the three sequences process_document returns have one length n; the
\* i-th metadata has chunk_index i and total_chunks n, its source_url is a
\* string (empty when none was given), the ids are pairwise distinct; when
\* no text is extracted the three are empty.
C25_ParallelSequences ==
    pd_calls > 0 =>
        LET n == Len(pd_out.chunks)
        IN /\ Len(pd_out.metadata_list) = n
           /\ Len(pd_out.ids) = n
           /\ \A k \in 1..n :
                  /\ pd_out.metadata_list[k].chunk_index = k - 1
                  /\ pd_out.metadata_list[k].total_chunks = n
                  /\ pd_out.metadata_list[k].chunk_index
                         < pd_out.metadata_list[k].total_chunks
                  /\ pd_out.metadata_list[k].source_url \in STRING
                  /\ pd_in.source_url = None
                         => pd_out.metadata_list[k].source_url = ""
           /\ \A j, k \in 1..n : j # k => pd_out.ids[j] # pd_out.ids[k]
           /\ extract_text_from_file(pd_in.path, pd_in.content) = ""
                  => pd_out = NoDocument

\* several chunks, no source URL given
C25_Witness ==
    /\ pd_calls > 0
    /\ Len(pd_out.ids) = 4
    /\ pd_in.source_url = Str("")
    /\ pd_out.metadata_list[4].source_url = ""

(***************************************************************************)
(* Properties of generate_embeddings and ingestion (under SpecEmbed)       *)
(***************************************************************************)
Embedded == emb_pc = "done" /\ emb_out.exc = "none"
EmbedFailed == emb_pc = "done" /\ emb_out.exc # "none"

\* C16: when every batch call succeeds, generate_embeddings returns one
\* vector per input text in input order, the i-th being the provider's vector
\* for the i-th text; the texts are sent in order in ceil(n/100) batches of
\* at most 100.
C16_OneVectorPerInput ==
    Embedded =>
        /\ Len(emb_out.value) = Len(emb_texts)
        /\ \A k \in 1..Len(emb_texts) :
               emb_out.value[k] = ProviderVector(emb_texts[k])
        /\ Len(emb_requests) = (Len(emb_texts) + BatchSize - 1) \div BatchSize
        /\ \A b \in 1..Len(emb_requests) :
               /\ Len(emb_requests[b]) \in 1..BatchSize
               /\ \A j \in 1..Len(emb_requests[b]) :
                      emb_requests[b][j] = emb_texts[(b - 1) * BatchSize + j]

C16_Witness ==
    /\ Embedded
    /\ Len(emb_texts) = 2 * BatchSize + 1
    /\ Len(emb_requests) = 3
    /\ Len(emb_requests[3]) = 1

\* C17: a batch call that fails ends generate_embeddings with the error and
\* no vectors, those of earlier batches included; no further batch is
\* requested, and an ingestion adds nothing to the collection.
C17_BatchFailed ==
    /\ emb_requests' # emb_requests
    /\ emb_requests' # <<>>
    /\ embeddings' = embeddings

C17_Step ==
    /\ C17_BatchFailed =>
           /\ emb_pc' = "done"
           /\ emb_out'.exc # "none"
           /\ emb_out'.value = None
    /\ EmbedFailed =>
           /\ emb_requests' = <<>>
           /\ collection' = collection

C17_FailedBatchFailsAll == [][C17_Step]_vars

C17_Witness ==
    /\ EmbedFailed
    /\ Len(emb_requests) = 2
    /\ Len(embeddings) = BatchSize
    /\ emb_out.value = None

(***************************************************************************)
(* Properties of the collection (under SpecStore)                          *)
(***************************************************************************)
Added == db_last.op = "add" /\ db_last.out.exc = "none"
Deleted == db_last.op = "delete" /\ db_last.out.exc = "none"

\* every id of the last add was stored before it
AllStored ==
    \A k \in DOMAIN db_last.doc.ids : db_last.doc.ids[k] \in DOMAIN db_last.before

\* C19: add_document_chunks with ids that are already stored raises no
\* error, replaces the text, metadata and vector stored for these ids with
\* the new ones and leaves the number of chunks unchanged.
C19_AddIsUpsert ==
    (Added /\ AllStored) =>
        /\ db_last.out.exc = "none"
        /\ \A k \in DOMAIN db_last.doc.ids :
               collection[db_last.doc.ids[k]] =
                   Stored(db_last.doc.chunks, db_last.doc.metadata_list,
                          db_last.embeddings, k)
        /\ Cardinality(DOMAIN collection) = Cardinality(DOMAIN db_last.before)

ChunksOf(coll, filename) ==
    {id \in DOMAIN coll : coll[id].metadata.source_file = filename}

\* C20: delete_document_by_filename(f) removes every chunk whose source_file
\* equals f and leaves every other chunk as it was, those whose source_file
\* contains f or differs from it in case included.
C20_DeleteExactMatchOnly ==
    Deleted =>
        /\ DOMAIN collection =
               DOMAIN db_last.before \ ChunksOf(db_last.before, db_last.filename)
        /\ \A id \in DOMAIN collection : collection[id] = db_last.before[id]

\* 5 chunks of doc.txt and 2 of other.txt, doc.txt deleted: the 2 are left
C20_Witness ==
    /\ Deleted
    /\ db_last.filename = "doc.txt"
    /\ Cardinality(DOMAIN db_last.before) = 7
    /\ Cardinality(ChunksOf(db_last.before, "doc.txt")) = 5
    /\ Cardinality(ChunksOf(db_last.before, "other.txt")) = 2
    /\ Cardinality(DOMAIN collection) = 2
    /\ ChunksOf(collection, "other.txt") = DOMAIN collection

Cleared == db_last.op = "clear"

\* C21: once clear_collection has returned the store holds no chunk, stats
\* report total_chunks = 0, and the store is attached to a live collection.
C21_ClearLeavesLiveEmptyCollection ==
    Cleared =>
        /\ collection = EmptyCollection
        /\ collection_live
        /\ get_collection_stats(collection, BackendFault(NoFault)).total_chunks = 0
        /\ get_collection_stats(collection, BackendFault(NoFault)).collection_name
               = "fact_check_documents"

\* an operation on the collection during which the backend raised
BackendFailed ==
    /\ db_last.op \in {"add", "query", "delete", "clear"}
    /\ db_last.fault # NoFault

\* the caller of the last operation was told that it failed
ReportedAsError ==
    CASE db_last.op \in {"add", "delete"} -> db_last.out.exc # "none"
      [] db_last.op = "clear" ->
            db_last.out.exc # "none" /\ db_last.response.code # 200
      [] db_last.op = "query" ->
            db_last.out # EmptyResults /\ db_last.response.code # 200
      [] OTHER -> FALSE

\* C22: an add, query, delete or clear that fails on the backend reports an
\* error to its caller and leaves the stored collection as it was.
C22_BackendFailureReported ==
    BackendFailed =>
        /\ ReportedAsError
        /\ collection = db_last.before
        /\ collection_live

\* C26: delete_document_by_filename returns the number of chunks it deleted,
\* 0 when no chunk has that source_file.
C26_DeleteReturnsCount ==
    Deleted =>
        db_last.out.value
            = Cardinality(DOMAIN db_last.before) - Cardinality(DOMAIN collection)

(***************************************************************************)
(* Properties of the fact-check query (under SpecQuery)                    *)
(***************************************************************************)
Queried == db_last.op = "query"

\* C24: each distance d >= 0 of the results is reported with a confidence
\* of max(0, 1 - d) rounded to 3 decimals, within 0..1; a smaller distance
\* never has the smaller confidence; distance 0.05 has confidence 0.95.
C24_ConfidenceFromDistance ==
    Queried =>
        LET distances == db_last.out.distances[1]
            context == db_last.response.context
        IN /\ db_last.response.code = 200
           /\ Len(context) = Len(distances)
           /\ \A k \in DOMAIN context :
                  LET exact == IF 10000 - distances[k] >= 0
                               THEN 10000 - distances[k] ELSE 0
                  IN /\ context[k].confidence \in 0..1000
                     /\ 10 * context[k].confidence - exact \in -5..5
                     /\ distances[k] = 500 => context[k].confidence = 950
           /\ \A j, k \in DOMAIN context :
                  distances[j] < distances[k]
                      => context[j].confidence >= context[k].confidence

\* two chunks found, one at distance 0.05 and one beyond distance 1
C24_Witness ==
    /\ Queried
    /\ db_last.out.distances[1] = <<500, 25000>>
    /\ db_last.response.context[1].confidence = 950
    /\ db_last.response.context[2].confidence = 0

(***************************************************************************)
(* Properties of process_directory (under SpecDir)                         *)
(***************************************************************************)
\* process_directory has built its statistics
HasStats == stats # None /\ "total_files" \in DOMAIN stats

Returned == dir_pc = "done" /\ HasStats

\* the paths in stats.failed_files
FailedFiles == Range(stats.failed_files)

\* C23: a file whose processing, embedding or storing fails is recorded in
\* failed_files and the loop goes on: when process_directory returns, every
\* file found has been taken and the statistics are returned.
C23_FailureIsRecordedAndSkipped ==
    /\ dir_pc \in {"loop", "done"} /\ HasStats =>
           /\ Len(dir_log) = dir_k
           /\ \A i \in 1..Len(dir_log) :
                  /\ dir_log[i].path = dir_files[i]
                  /\ dir_log[i].outcome # "added"
                         => dir_log[i].path \in FailedFiles
    /\ dir_pc = "done" => stats # None
    /\ Returned =>
           /\ dir_k = Len(dir_files)
           /\ stats.total_files = Len(dir_files)

\* the first file raised, a later one was added
C23_Witness ==
    /\ Returned
    /\ Len(dir_log) = 3
    /\ dir_log[1].outcome = "raised"
    /\ \E i \in 2..3 : dir_log[i].outcome = "added"

\* the chunks of the entries of a log that were added, summed
RECURSIVE ChunksAdded(_)
ChunksAdded(log) ==
    IF log = <<>> THEN 0
    ELSE (IF log[Len(log)].outcome = "added" THEN log[Len(log)].chunks ELSE 0)
            + ChunksAdded(SubSeq(log, 1, Len(log) - 1))

\* C28: in the statistics process_directory returns, processed_files plus
\* the number of failed_files is total_files, a file without chunks is in
\* failed_files, and total_chunks is the number of chunks added.
C28_StatisticsAddUp ==
    Returned =>
        /\ stats.processed_files + Len(stats.failed_files) = stats.total_files
        /\ \A i \in 1..Len(dir_log) :
               dir_log[i].chunks = 0 => dir_log[i].path \in FailedFiles
        /\ stats.total_chunks = ChunksAdded(dir_log)
        /\ stats.processed_files
               = Cardinality({i \in 1..Len(dir_log) : dir_log[i].outcome = "added"})

\* five chunks and one chunk added, the empty file failed
C28_Witness ==
    /\ Returned
    /\ stats.total_files = 3
    /\ stats.processed_files = 2
    /\ stats.total_chunks = 6
    /\ stats.failed_files = <<"documents/empty.txt">>

\* C27: after process_directory has ingested a file, the chunks stored for
\* its source_file are those of this ingestion: each has its total_chunks
\* and their chunk_index values are 0..total_chunks-1.
C27_NoStaleChunks ==
    Returned =>
        \A i \in 1..Len(dir_log) :
            dir_log[i].outcome = "added" =>
                LET stored == {x \in DOMAIN collection :
                                  collection[x].metadata.source_file
                                      = PathName(dir_log[i].path)}
                IN /\ \A x \in stored :
                          collection[x].metadata.total_chunks = dir_log[i].chunks
                   /\ {collection[x].metadata.chunk_index : x \in stored}
                          = 0..(dir_log[i].chunks - 1)
                   /\ Cardinality(stored) = dir_log[i].chunks

(***************************************************************************)
(* Properties of upload_file (under SpecUpload)                            *)
(***************************************************************************)
\* requests r and q are uploads of the same file
SameUpload(r, q) ==
    /\ r # q
    /\ req[r].pc # "none"
    /\ req[q].pc # "none"
    /\ UploadPath(req[r].filename) = UploadPath(req[q].filename)

RejectedAsExisting(r) == req[r].pc = "done" /\ req[r].response.code = 409

\* C29: an upload is answered 409 'File already exists' only if the other
\* upload of that file name stored its chunks; an upload that failed leaves
\* no file behind that blocks it.
C29_RejectedOnlyAfterStoredUpload ==
    \A r, q \in Requests :
        SameUpload(r, q) /\ RejectedAsExisting(r) /\ req[q].pc = "done"
            => req[q].response.code = 200 /\ req[q].added

\* C30: of two uploads of the same file name served at the same time at
\* most one passes the file-exists check, and the store is given the chunks
\* of at most one of them.
C30_OneUploadPassesTheCheck ==
    \A r, q \in Requests :
        SameUpload(r, q) => ~(req[r].passed /\ req[q].passed)

====
